---- MODULE Spec2Model ----
(***************************************************************************)
(* Static PageRank solver of hornetsnest (src/Static/PageRank/PageRank.cu) *)
(* as a state machine: the solver object, the convergence loop of run()    *)
(* with its five kernel launches per pass, and the ranking extractor.      *)
(*                                                                         *)
(* Scores (pr_t) are fixed-point numbers: the integer x stands for x/One,  *)
(* and a quotient or product is cut to that resolution.                    *)
(* A kernel launch (forAllnumV / forAllVertices / forAllEdges) is a set of *)
(* parallel units, one per vertex or per stored edge, taken in any order.  *)
(* The device operators live in PageRankOperators.cuh, which is not among  *)
(* the sources at hand: their bodies follow the written specification.     *)
(***************************************************************************)
EXTENDS Integers, Sequences, FiniteSets, TLC

VARIABLES
    hornet,          \* the graph: [nV, edges], edges = stored pairs <<src, dst>>
    hd_prdata,       \* the PrData record shared by host and device
    h_out,           \* host copy of the reduction scalar (local of run)
    pc,              \* position of the host thread: "idle", "test", "pass"
    stage,           \* index in PassStages of the kernel launched last
    pending,         \* device units launched and not yet executed
    done,            \* units executed in the current pass
    passes,          \* passes issued by the current run()
    ran,             \* a call of run() has returned
    curr_start,      \* curr_pr when the scatter kernel was launched
    reported,        \* the lines printRankings wrote last
    oob_reads,       \* indices outside [0, nV) that printRankings read
    host_page_rank,  \* host buffer filled by get_page_rank_score_host
    prev_start,      \* prev_pr when the current pass began
    last_run,        \* what the run() that returned last left: [scores, converged]
    life,            \* the solver object: "alive", "released", "destroyed",
                     \* "undefined" once a freed buffer has been used
    ptr,             \* what each owned pointer refers to:
                     \* "null", "wild", "live" or "freed"
    lost,            \* names of live buffers that no pointer refers to any more
    faults           \* invalid uses of memory so far, as <<kind, buffer or call>>

vars == <<hornet, hd_prdata, h_out, pc, stage, pending, done, passes, ran,
          curr_start, reported, oob_reads, host_page_rank, prev_start, last_run,
          life, ptr, lost, faults>>

----------------------------------------------------------------------------
\* Bounds of the model

\* largest vertex count of the graphs explored by the main specification
MaxV == 3
\* largest iteration_max of a valid configuration
MaxIter == 2

\* fixed-point unit: the integer One stands for 1.0f
One == 120
\* a damping factor of 0.5
Half == One \div 2
\* a positive convergence threshold, 0.2
Tol == One \div 5
\* 2^24: from here on a float no longer changes when 1.0f is added to it
FloatAbsorb == 16777216 * One
\* what memory that was allocated and never written may hold
UninitVals == {0, 7}

----------------------------------------------------------------------------
\* Arithmetic of pr_t

Abs(x) == IF x < 0 THEN -x ELSE x

\* product of two fixed-point numbers
FMul(a, b) == (a * b) \div One

\* t + 1 in float arithmetic
FAddOne(t) == IF t >= FloatAbsorb THEN t ELSE t + One

RECURSIVE SumOver(_, _)
SumOver(f, S) ==
    IF S = {} THEN 0
    ELSE LET x == CHOOSE y \in S : TRUE
         IN  f[x] + SumOver(f, S \ {x})

----------------------------------------------------------------------------
\* The graph. hornet stores directed adjacency pairs <<src, dst>>; an
\* undirected edge {u, v} is stored in both directions, and the degree of a
\* vertex is the length of its adjacency list.

Vertices == 0 .. (hornet.nV - 1)

Degree(v) == Cardinality({e \in hornet.edges : e[1] = v})

AllGraphs ==
    { [nV |-> 1, edges |-> {}],
      [nV |-> 2, edges |-> {<<0, 1>>, <<1, 0>>}],
      [nV |-> 3, edges |-> {<<0, 1>>, <<1, 2>>, <<2, 0>>}],
      [nV |-> 3, edges |-> {<<0, 1>>, <<1, 0>>, <<1, 2>>, <<2, 1>>}],
      [nV |-> 3, edges |-> {<<0, 1>>, <<0, 2>>, <<2, 2>>}],
      [nV |-> 3, edges |-> {<<0, 1>>, <<0, 2>>, <<1, 0>>, <<2, 1>>}],
      [nV |-> 4, edges |-> {<<0, 1>>, <<1, 2>>, <<2, 0>>, <<2, 3>>}] }

Graphs == {g \in AllGraphs : g.nV <= MaxV}

Symmetric == \A e \in hornet.edges : <<e[2], e[1]>> \in hornet.edges

----------------------------------------------------------------------------
\* Configurations handed to the constructor: [iteration_max, threshold, damp]

ValidConfig(c) ==
    /\ c.iteration_max > 0
    /\ c.threshold >= 0
    /\ c.damp >= 0 /\ c.damp < One

Configs ==
    [iteration_max : 1 .. MaxIter, threshold : {0, Tol}, damp : {Half}]
    \cup { [iteration_max |-> MaxIter, threshold |-> FloatAbsorb, damp |-> Half],
           [iteration_max |-> MaxIter, threshold |-> Tol, damp |-> 0],
           [iteration_max |-> 0,       threshold |-> Tol, damp |-> Half],
           [iteration_max |-> -1,      threshold |-> Tol, damp |-> Half],
           [iteration_max |-> MaxIter, threshold |-> -1,  damp |-> Half],
           [iteration_max |-> MaxIter, threshold |-> Tol, damp |-> One] }

\* StaticPageRank::setInputParameters
setInputParameters(pd, n, c) ==
    [pd EXCEPT !.iteration_max   = c.iteration_max,
               !.threshold       = c.threshold,
               !.damp            = c.damp,
               !.normalized_damp = (One - c.damp) \div n]

\* StaticPageRank::reset
reset(pd) == [pd EXCEPT !.iteration = 0]

----------------------------------------------------------------------------
\* Device operators (PageRankOperators.cuh), each applied to one vertex id
\* or one stored edge.

\* a read-modify-write that is not atomic: the unit adds to the value the cell
\* held when the kernel was launched and stores the result
RacyAdd(arr, i, x) == [arr EXCEPT ![i] = curr_start[i] + x]

\* atomicAdd on one cell of an array
AtomicAdd(arr, i, x) == [arr EXCEPT ![i] = @ + x]

\* every vertex starts a run with the score 1/nV
InitOperator(pd, v) ==
    [pd EXCEPT !.abs_diff[v]   = 0,
               !.prev_pr[v]    = One \div pd.nV,
               !.curr_pr[v]    = pd.normalized_damp,
               !.reduction_out = 0]

\* Reset: the teleport baseline; the reduction accumulator is cleared with it
ResetCurr(pd, v) ==
    [pd EXCEPT !.curr_pr[v]    = pd.normalized_damp,
               !.reduction_out = 0]

\* ContributionCompute
ComputeContribuitionPerVertex(pd, v) ==
    [pd EXCEPT !.contri[v] =
        IF Degree(v) = 0 THEN 0 ELSE pd.prev_pr[v] \div Degree(v)]

\* ContributionScatter, directed: the source gives to the destination
AddContribuitions(pd, e) ==
    [pd EXCEPT !.curr_pr =
        AtomicAdd(pd.curr_pr, e[2], FMul(pd.damp, pd.contri[e[1]]))]

\* ContributionScatter, undirected: on the stored pair <<src, dst>> the vertex
\* src receives the damped contribution of its neighbour dst, so that the two
\* stored directions of an undirected edge serve both endpoints once each
AddContribuitionsUndirected(pd, e) ==
    [pd EXCEPT !.curr_pr =
        AtomicAdd(pd.curr_pr, e[1], FMul(pd.damp, pd.contri[e[2]]))]

\* a DampAndDiff that overwrites prev_pr first and takes the difference after
CopyThenDiff(pd, v) ==
    [pd EXCEPT !.abs_diff[v] = Abs(pd.curr_pr[v] - pd.curr_pr[v]),
               !.prev_pr[v]  = pd.curr_pr[v]]

\* DampAndDiff: the damping being folded into the baseline of Reset and into
\* the scatter, this kernel takes the difference and then overwrites prev_pr
DampAndDiffAndCopy(pd, v) ==
    [pd EXCEPT !.abs_diff[v] = Abs(pd.curr_pr[v] - pd.prev_pr[v]),
               !.prev_pr[v]  = pd.curr_pr[v]]

\* ConvergenceReduce: atomicAdd into the reduction scalar
Sum(pd, v) ==
    [pd EXCEPT !.reduction_out = @ + pd.abs_diff[v]]

\* total of the scores, for the ranking report
SumPr(pd, v) ==
    [pd EXCEPT !.reduction_out = @ + pd.prev_pr[v]]

\* one unit of the kernel `op`
Apply(op, pd, x) ==
    CASE op = "InitOperator"                  -> InitOperator(pd, x)
      [] op = "ResetCurr"                     -> ResetCurr(pd, x)
      [] op = "ComputeContribuitionPerVertex" -> ComputeContribuitionPerVertex(pd, x)
      [] op = "AddContribuitions"             -> AddContribuitions(pd, x)
      [] op = "AddContribuitionsUndirected"   -> AddContribuitionsUndirected(pd, x)
      [] op = "DampAndDiffAndCopy"            -> DampAndDiffAndCopy(pd, x)
      [] op = "Sum"                           -> Sum(pd, x)
      [] op = "SumPr"                         -> SumPr(pd, x)

\* a whole kernel, its units taken one after the other
RECURSIVE forAll(_, _, _)
forAll(op, S, pd) ==
    IF S = {} THEN pd
    ELSE LET x == CHOOSE y \in S : TRUE
         IN  forAll(op, S \ {x}, Apply(op, pd, x))

----------------------------------------------------------------------------
\* Construction

\* gpu::allocate gives memory that holds anything
Allocated(n, g) == [v \in 0 .. (n - 1) |-> g]

\* StaticPageRank::StaticPageRank
Constructed(graph, c, g) ==
    reset(setInputParameters(
        [nV |-> graph.nV,
         iteration_max |-> 0, threshold |-> 0, damp |-> 0, normalized_damp |-> 0,
         prev_pr  |-> Allocated(graph.nV, g),
         curr_pr  |-> Allocated(graph.nV, g),
         abs_diff |-> Allocated(graph.nV, g),
         contri   |-> Allocated(graph.nV, g),
         reduction_out |-> g,
         iteration |-> g],
        graph.nV, c))

\* the buffers the solver owns, in the order release() frees them
OwnedBuffers ==
    <<"prev_pr", "curr_pr", "abs_diff", "contri", "reduction_out", "host_page_rank">>

\* the pointers after the constructor: five device buffers allocated, and
\* host_page_rank, which the constructor does not assign, holding whatever the
\* object's memory held (the null pointer when that was zero)
ConstructedPtr(g) ==
    [p \in {OwnedBuffers[i] : i \in DOMAIN OwnedBuffers} |->
        IF p # "host_page_rank" THEN "live"
        ELSE IF g = 0 THEN "null" ELSE "wild"]

Init ==
    \E graph \in Graphs, c \in Configs, g \in UninitVals :
        /\ hornet = graph
        /\ hd_prdata = Constructed(graph, c, g)
        /\ h_out = 0
        /\ pc = "idle"
        /\ stage = 0
        /\ pending = {}
        /\ done = {}
        /\ passes = 0
        /\ ran = FALSE
        /\ curr_start = Allocated(graph.nV, g)
        /\ reported = [lines |-> <<>>, total |-> 0]
        /\ oob_reads = {}
        /\ host_page_rank = <<>>
        /\ prev_start = Allocated(graph.nV, g)
        /\ last_run = <<>>
        /\ life = "alive"
        /\ ptr = ConstructedPtr(g)
        /\ lost = {}
        /\ faults = {}

----------------------------------------------------------------------------
\* StaticPageRank::run

\* a pass that leaves out the Reset kernel
PassStagesNoReset ==
    << "ComputeContribuitionPerVertex", "AddContribuitionsUndirected",
       "DampAndDiffAndCopy", "Sum" >>

\* the kernels of one pass, in launch order
PassStages ==
    << "ResetCurr", "ComputeContribuitionPerVertex",
       "AddContribuitionsUndirected", "DampAndDiffAndCopy", "Sum" >>

ScatterStage ==
    CHOOSE k \in 1 .. Len(PassStages) : PassStages[k] = "AddContribuitionsUndirected"

\* an edge traversal that visits every undirected edge once only
UnitsOfOncePerEdge(k) ==
    IF PassStages[k] \in {"AddContribuitionsUndirected", "AddContribuitions"}
    THEN {<<k, e>> : e \in {d \in hornet.edges : d[1] <= d[2]}}
    ELSE {<<k, v>> : v \in Vertices}

\* the units a launch of kernel k consists of: forAllEdges gives one unit per
\* stored edge, forAllnumV and forAllVertices one per vertex
UnitsOf(k) ==
    IF PassStages[k] \in {"AddContribuitionsUndirected", "AddContribuitions"}
    THEN {<<k, e>> : e \in hornet.edges}
    ELSE {<<k, v>> : v \in Vertices}

\* kernels that do not wait for one another
StageBarrierNone == TRUE

\* kernels launched on one stream: a kernel starts when the one before it ended
StageBarrier == pending = {}

\* hd_prdata.sync() and the blocking host::copyFromDevice
HostSync == pending = {}

\* a loop that tests convergence only
LoopGuardNoBound == h_out > hd_prdata.threshold

\* the condition of the while loop
LoopGuard ==
    /\ hd_prdata.iteration < hd_prdata.iteration_max
    /\ h_out > hd_prdata.threshold

\* the new value of the loop guard scalar before the loop
GuardStart == FAddOne(hd_prdata.threshold)

\* a run() that starts without setting the iteration counter
RunBeginKeepIteration ==
    /\ pc = "idle"
    /\ life = "alive"
    /\ hd_prdata' = forAll("InitOperator", Vertices, hd_prdata)
    /\ h_out' = GuardStart
    /\ pc' = "test"
    /\ passes' = 0
    /\ stage' = 0
    /\ done' = {}
    /\ UNCHANGED <<ran, hornet, pending, curr_start, reported, oob_reads,
                   host_page_rank, prev_start, last_run, life, ptr, lost, faults>>

\* run(), up to the first test of the loop condition
RunBegin ==
    /\ pc = "idle"
    /\ life = "alive"
    /\ hd_prdata' = [forAll("InitOperator", Vertices, hd_prdata) EXCEPT !.iteration = 0]
    /\ h_out' = GuardStart
    /\ pc' = "test"
    /\ passes' = 0
    /\ stage' = 0
    /\ done' = {}
    /\ UNCHANGED <<ran, hornet, pending, curr_start, reported, oob_reads,
                   host_page_rank, prev_start, last_run, life, ptr, lost, faults>>

\* the loop condition holds: the first kernel of a pass is launched
PassBegin ==
    /\ pc = "test"
    /\ LoopGuard
    /\ pc' = "pass"
    /\ stage' = 1
    /\ pending' = pending \cup UnitsOf(1)
    /\ done' = {}
    /\ passes' = passes + 1
    /\ prev_start' = hd_prdata.prev_pr
    /\ UNCHANGED <<ran, hornet, hd_prdata, h_out, curr_start, reported, oob_reads,
                   host_page_rank, last_run, life, ptr, lost, faults>>

\* the loop condition fails: run() returns
RunEnd ==
    /\ pc = "test"
    /\ ~LoopGuard
    /\ pc' = "idle"
    /\ ran' = TRUE
    /\ last_run' = [scores    |-> hd_prdata.curr_pr,
                    converged |-> passes >= 1 /\ h_out <= hd_prdata.threshold]
    /\ UNCHANGED <<hornet, hd_prdata, h_out, stage, pending, done, passes,
                   curr_start, reported, oob_reads, host_page_rank, prev_start,
                   life, ptr, lost, faults>>

\* one device unit executes
Unit(u) ==
    /\ u \in pending
    /\ hd_prdata' = Apply(PassStages[u[1]], hd_prdata, u[2])
    /\ pending' = pending \ {u}
    /\ done' = done \cup {u}
    /\ UNCHANGED <<ran, hornet, h_out, pc, stage, passes, curr_start, reported,
                   oob_reads, host_page_rank, prev_start, last_run, life, ptr,
                   lost, faults>>

\* the next kernel of the pass is launched
NextStage ==
    /\ pc = "pass"
    /\ stage < Len(PassStages)
    /\ StageBarrier
    /\ stage' = stage + 1
    /\ pending' = pending \cup UnitsOf(stage + 1)
    /\ curr_start' = IF stage + 1 = ScatterStage THEN hd_prdata.curr_pr ELSE curr_start
    /\ UNCHANGED <<ran, hornet, hd_prdata, h_out, pc, done, passes, reported,
                   oob_reads, host_page_rank, prev_start, last_run, life, ptr,
                   lost, faults>>

\* an end of pass that leaves the iteration counter as it is
PassEndNoIncrement ==
    /\ pc = "pass"
    /\ stage = Len(PassStages)
    /\ HostSync
    /\ h_out' = hd_prdata.reduction_out
    /\ hd_prdata' = hd_prdata
    /\ pc' = "test"
    /\ UNCHANGED <<ran, hornet, stage, pending, done, passes, curr_start, reported,
                   oob_reads, host_page_rank, prev_start, last_run, life, ptr,
                   lost, faults>>

\* end of a pass: the reduction scalar is copied to the host, iteration++
PassEnd ==
    /\ pc = "pass"
    /\ stage = Len(PassStages)
    /\ HostSync
    /\ h_out' = hd_prdata.reduction_out
    /\ hd_prdata' = [hd_prdata EXCEPT !.iteration = @ + 1]
    /\ pc' = "test"
    /\ UNCHANGED <<ran, hornet, stage, pending, done, passes, curr_start, reported,
                   oob_reads, host_page_rank, prev_start, last_run, life, ptr,
                   lost, faults>>

RunStep ==
    \/ PassBegin
    \/ RunEnd
    \/ \E u \in pending : Unit(u)
    \/ NextStage
    \/ PassEnd

NextRun == RunBegin \/ RunStep

\* run() alone, the device and the host thread never stalling
SpecRun == Init /\ [][NextRun]_vars /\ WF_vars(RunStep)

----------------------------------------------------------------------------
\* StaticPageRank::printRankings

\* the number of lines the loop `for (int i = 1; i < 11; i++)` prints
TopK == 10

\* forAllnumV(hornet, SetIds { d_ids })
SetIds(n) == [v \in 0 .. (n - 1) |-> v]

\* position of the key k in an ascending sequence of <<key, value>> pairs,
\* behind the keys equal to it: the radix sort keeps equal keys in input order
RECURSIVE InsertPair(_, _)
InsertPair(p, sorted) ==
    IF sorted = <<>> THEN <<p>>
    ELSE IF sorted[Len(sorted)][1] <= p[1]
         THEN Append(sorted, p)
         ELSE Append(InsertPair(p, SubSeq(sorted, 1, Len(sorted) - 1)),
                     sorted[Len(sorted)])

\* cub::DeviceRadixSort::SortPairs over keys[0 .. n-1], values[0 .. n-1]:
\* the pairs in ascending key order, as a function on 0 .. n-1
RECURSIVE SortedPrefix(_, _, _)
SortedPrefix(keys, values, n) ==
    IF n = 0 THEN <<>>
    ELSE InsertPair(<<keys[n - 1], values[n - 1]>>, SortedPrefix(keys, values, n - 1))

SortPairs(keys, values, n) ==
    LET s == SortedPrefix(keys, values, n)
    IN  [i \in 0 .. (n - 1) |-> s[i + 1]]

\* reading the sorted arrays from the front
ReadIndexFromFront(n, i) == i - 1

\* the index the i-th printed line reads in h_ids and h_scores
ReadIndex(n, i) == n - i

\* the printed lines: line i shows h_ids[nV - i] and h_scores[nV - i]; a read
\* outside the buffers gives whatever lies there
Lines(sorted, n, g) ==
    [i \in 1 .. TopK |->
        IF ReadIndex(n, i) \in 0 .. (n - 1)
        THEN [id |-> sorted[ReadIndex(n, i)][2], score |-> sorted[ReadIndex(n, i)][1]]
        ELSE [id |-> g, score |-> g]]

\* the buffers printRankings allocates: the keys and ids on the device, their
\* copies on the host, the sorted outputs and the scratch space of the sort
RankingBuffers ==
    {"d_scores", "d_ids", "h_scores", "h_ids", "d_scores_out", "d_ids_out",
     "d_temp_storage"}

\* the buffers printRankings frees before it returns
RankingFreed == {"d_scores", "d_ids", "h_scores", "h_ids"}

printRankings ==
    /\ pc = "idle"
    /\ life = "alive"
    /\ \E g \in UninitVals :
         LET n      == hornet.nV
             sorted == SortPairs(hd_prdata.curr_pr, SetIds(n), n)
             pd1    == forAll("ResetCurr", Vertices, hd_prdata)
             pd2    == forAll("SumPr", Vertices, pd1)
         IN  /\ reported' = [lines |-> Lines(sorted, n, g),
                             total |-> pd2.reduction_out]
             /\ oob_reads' = {ReadIndex(n, i) : i \in 1 .. TopK} \ (0 .. (n - 1))
             /\ hd_prdata' = pd2
    /\ lost' = lost \cup (RankingBuffers \ RankingFreed)
    /\ UNCHANGED <<ran, hornet, h_out, pc, stage, pending, done, passes, curr_start,
                   host_page_rank, prev_start, last_run, life, ptr, faults>>

\* StaticPageRank::get_page_rank_score_host
\* host::allocate(p, n): p refers to a new buffer; the buffer it referred to
\* before, if it is live, is reachable no more
LostAfterAllocate(p) == IF ptr[p] = "live" THEN lost \cup {p} ELSE lost

get_page_rank_score_host ==
    /\ pc = "idle"
    /\ life = "alive"
    /\ lost' = LostAfterAllocate("host_page_rank")
    /\ ptr' = [ptr EXCEPT !["host_page_rank"] = "live"]
    /\ host_page_rank' = hd_prdata.curr_pr
    /\ UNCHANGED <<ran, hornet, hd_prdata, h_out, pc, stage, pending, done, passes,
                   curr_start, reported, oob_reads, prev_start, last_run, life,
                   faults>>

\* StaticPageRank::get_iteration_count
get_iteration_count == hd_prdata.iteration

----------------------------------------------------------------------------
\* StaticPageRank::release and StaticPageRank::~StaticPageRank

\* gpu::free / host::free leave the pointer as it is: a live buffer is freed,
\* the null pointer is ignored
FreeStatus(st) == IF st = "live" THEN "freed" ELSE st

\* freeing a buffer that was freed before, or a pointer that was never set
FreeFault(p, st) ==
    IF st = "freed" THEN {<<"double free", p>>}
    ELSE IF st = "wild" THEN {<<"invalid free", p>>}
    ELSE {}

\* the six frees of release()
Released(pt) == [p \in DOMAIN pt |-> FreeStatus(pt[p])]

ReleaseFaults(pt) == UNION {FreeFault(p, pt[p]) : p \in DOMAIN pt}

\* release() called by the owner of the solver
release ==
    /\ pc = "idle"
    /\ life \in {"alive", "released"}
    /\ ptr' = Released(ptr)
    /\ faults' = faults \cup ReleaseFaults(ptr)
    /\ life' = "released"
    /\ UNCHANGED <<hornet, hd_prdata, h_out, pc, stage, pending, done, passes, ran,
                   curr_start, reported, oob_reads, host_page_rank, prev_start,
                   last_run, lost>>

\* the destructor: release() once more, whatever was called before
Destructor ==
    /\ pc = "idle"
    /\ life \in {"alive", "released"}
    /\ ptr' = Released(ptr)
    /\ faults' = faults \cup ReleaseFaults(ptr)
    /\ life' = "destroyed"
    /\ UNCHANGED <<hornet, hd_prdata, h_out, pc, stage, pending, done, passes, ran,
                   curr_start, reported, oob_reads, host_page_rank, prev_start,
                   last_run, lost>>

\* the calls that read or write the device buffers
DeviceCalls == {"run", "printRankings", "get_page_rank_score_host"}

\* one of these calls on a solver whose buffers release() has freed: nothing
\* in them tests for it, the kernels and copies work on freed memory, and what
\* the program does from there on is undefined
UseAfterRelease(call) ==
    /\ pc = "idle"
    /\ life = "released"
    /\ faults' = faults \cup {<<"use after free", call>>}
    /\ life' = "undefined"
    /\ UNCHANGED <<hornet, hd_prdata, h_out, pc, stage, pending, done, passes, ran,
                   curr_start, reported, oob_reads, host_page_rank, prev_start,
                   last_run, ptr, lost>>

----------------------------------------------------------------------------
\* Specifications

Next ==
    \/ RunBegin
    \/ RunStep
    \/ printRankings
    \/ get_page_rank_score_host
    \/ release
    \/ Destructor
    \/ \E call \in DeviceCalls : UseAfterRelease(call)

Spec == Init /\ [][Next]_vars

\* The ranking extractor on solvers of at least TopK vertices: the scores left
\* by a run lie on three levels, with at most two vertices on the lowest and
\* at most one on the highest.
RankExtra == 1

RankLevels == <<One \div 10, One \div 5, One \div 2>>

InitRank ==
    \E n \in TopK .. (TopK + RankExtra) :
      \E low \in {L \in SUBSET (0 .. (n - 1)) : Cardinality(L) <= 2},
         h \in 0 .. n :
        LET scores == [v \in 0 .. (n - 1) |->
                          IF v = h THEN RankLevels[3]
                          ELSE IF v \in low THEN RankLevels[1] ELSE RankLevels[2]]
        IN  /\ hornet = [nV |-> n, edges |-> {}]
            /\ hd_prdata =
                 [nV |-> n, iteration_max |-> 1, threshold |-> Tol, damp |-> Half,
                  normalized_damp |-> (One - Half) \div n,
                  prev_pr |-> scores, curr_pr |-> scores,
                  abs_diff |-> [v \in 0 .. (n - 1) |-> 0],
                  contri   |-> [v \in 0 .. (n - 1) |-> 0],
                  reduction_out |-> 0, iteration |-> 1]
            /\ h_out = 0
            /\ pc = "idle"
            /\ stage = 0
            /\ pending = {}
            /\ done = {}
            /\ passes = 1
            /\ ran = TRUE
            /\ curr_start = scores
            /\ reported = [lines |-> <<>>, total |-> 0]
            /\ oob_reads = {}
            /\ host_page_rank = <<>>
            /\ prev_start = scores
            /\ last_run = [scores |-> scores, converged |-> TRUE]
            /\ life = "alive"
            /\ ptr = ConstructedPtr(0)
            /\ lost = {}
            /\ faults = {}

NextRank == printRankings

SpecRank == InitRank /\ [][NextRank]_vars

----------------------------------------------------------------------------
\* Properties

Max(a, b) == IF a >= b THEN a ELSE b

Returned == pc = "idle" /\ ran

\* the scatter units of the current pass that have executed
ScatterDone == {u \in done : u[1] = ScatterStage}

\* the neighbours of v in an undirected graph
Nbr(v) == {w \in Vertices : <<v, w>> \in hornet.edges \/ <<w, v>> \in hornet.edges}

\* what the stored edge e adds during the scatter
Scattered(e) == FMul(hd_prdata.damp, hd_prdata.contri[e[2]])

RECURSIVE SumScattered(_)
SumScattered(S) ==
    IF S = {} THEN 0
    ELSE LET e == CHOOSE d \in S : TRUE
         IN  Scattered(e) + SumScattered(S \ {e})

\* C1: after run() has returned, get_iteration_count() lies in
\* [1, iteration_max], for every configuration the constructor accepted.
C1_IterationCountInRange ==
    Returned =>
        /\ get_iteration_count >= 1
        /\ get_iteration_count <= hd_prdata.iteration_max

C3_StopsOnStatedTransitions ==
    Returned =>
        \/ passes >= 1 /\ h_out <= hd_prdata.threshold
        \/ hd_prdata.iteration = hd_prdata.iteration_max

\* C4: the kernels of a pass run in launch order with a barrier between them:
\* a pending unit belongs to the kernel launched last and every unit of the
\* kernels before it has executed; while the scatter runs, contri holds the
\* contribution of every vertex; and once the host has read the reduction scalar
\* every unit of the pass has executed.
C4_StagesInOrder ==
    /\ PassStages = << "ResetCurr", "ComputeContribuitionPerVertex",
                       "AddContribuitionsUndirected", "DampAndDiffAndCopy", "Sum" >>
    /\ \A u \in pending :
          /\ u[1] = stage
          /\ \A k \in 1 .. (stage - 1) : UnitsOf(k) \subseteq done
    /\ (pc = "pass" /\ stage = ScatterStage) =>
          \A v \in Vertices :
              hd_prdata.contri[v] =
                  IF Degree(v) = 0 THEN 0 ELSE hd_prdata.prev_pr[v] \div Degree(v)
    /\ (passes > 0 /\ pc \in {"test", "idle"}) =>
          \A k \in 1 .. Len(PassStages) : UnitsOf(k) \subseteq done

\* the scatter of a second pass, some of its units executed and some not
C4_Witness ==
    /\ pc = "pass"
    /\ passes = 2
    /\ stage = ScatterStage
    /\ ScatterDone # {}
    /\ \E u \in pending : u[1] = ScatterStage

\* C5: during the scatter, whatever the order of the edge units, curr_pr[v] is
\* its value at the launch of the kernel plus what the executed units that
\* accumulate into v have added; at the end of the kernel these are all the
\* stored edges of v.
C5_ScatterLosesNoUpdate ==
    (pc = "pass" /\ stage = ScatterStage) =>
        \A v \in Vertices :
            /\ hd_prdata.curr_pr[v] =
                  curr_start[v]
                  + SumScattered({u[2] : u \in {d \in ScatterDone : d[2][1] = v}})
            /\ pending = {} =>
                  hd_prdata.curr_pr[v] =
                      curr_start[v]
                      + SumScattered({e \in hornet.edges : e[1] = v})

\* two edge units have accumulated into the same vertex, and the kernel is over
C5_Witness ==
    /\ pc = "pass"
    /\ stage = ScatterStage
    /\ pending = {}
    /\ \E v \in Vertices :
          /\ Cardinality({u \in ScatterDone : u[2][1] = v}) >= 2
          /\ hd_prdata.curr_pr[v] > curr_start[v]

C8_InvalidConfigRefused ==
    (pc = "test") => ValidConfig(hd_prdata)

\* C9: called after a run on a solver of valid configuration, printRankings
\* leaves curr_pr, prev_pr and the iteration counter as they were.
C9_PrintRankingsFrame ==
    [][(printRankings /\ ran /\ ValidConfig(hd_prdata)) =>
          /\ hd_prdata'.curr_pr = hd_prdata.curr_pr
          /\ hd_prdata'.prev_pr = hd_prdata.prev_pr
          /\ hd_prdata'.iteration = hd_prdata.iteration]_vars

\* the lines `lines` are a top-TopK ranking of the scores `scores`
TopRanking(scores, lines) ==
    /\ Len(lines) = TopK
    /\ \A i \in 1 .. TopK : lines[i].id \in DOMAIN scores
    /\ \A i \in 1 .. TopK : lines[i].score = scores[lines[i].id]
    /\ \A i, j \in 1 .. TopK : i < j => lines[i].score >= lines[j].score
    /\ \A i, j \in 1 .. TopK : i # j => lines[i].id # lines[j].id
    /\ \A w \in DOMAIN scores :
          (\A i \in 1 .. TopK : lines[i].id # w) =>
              \A i \in 1 .. TopK : scores[w] <= lines[i].score

\* C10: on a graph of at least TopK vertices printRankings reports TopK pairs in
\* non-increasing score order, each score the curr_pr of its id, the ids being
\* TopK highest-scored vertices.
C10_TopKRanking ==
    [][(printRankings /\ hornet.nV >= TopK) =>
          TopRanking(hd_prdata.curr_pr, reported'.lines)]_vars

\* a report on more than TopK vertices whose first line outranks its last
C10_Witness ==
    /\ hornet.nV > TopK
    /\ Len(reported.lines) = TopK
    /\ reported.lines[1].score > reported.lines[TopK].score
    /\ \E w \in Vertices : \A i \in 1 .. TopK : reported.lines[i].id # w

----------------------------------------------------------------------------
\* Memory

\* the names of the buffers that are allocated and not freed
LiveBuffers == {p \in DOMAIN ptr : ptr[p] = "live"} \cup lost

\* C11: every temporary buffer printRankings allocates is freed before it
\* returns: the live buffers after a call are the live buffers before it.
C11_RankingBuffersFreed ==
    [][printRankings => LiveBuffers' = LiveBuffers]_vars

----------------------------------------------------------------------------
\* Repeated runs

\* total absolute difference of two score vectors
TotalDiff(a, b) == SumOver([v \in DOMAIN a |-> Abs(a[v] - b[v])], DOMAIN a)

\* a run() is about to return on a solver whose previous run() had converged
ReturnsAfterConverged ==
    /\ pc = "test"
    /\ ~LoopGuard
    /\ last_run # <<>>
    /\ last_run.converged

----------------------------------------------------------------------------
\* Scores

\* tolerance of a comparison of scores: 0.05
ScoreTol == One \div 20

\* run() is about to return
Returning == pc = "test" /\ ~LoopGuard

\* no vertex is dangling
OutDegreePositive == \A v \in Vertices : Degree(v) > 0

\* the total of curr_pr
TotalScore == SumOver(hd_prdata.curr_pr, Vertices)

\* C13: on a graph in which every vertex has an out-degree above 0, the scores
\* run() leaves add up to 1.0 within tolerance (here for a run of at least one
\* pass under a valid configuration).
C13_MassPreserved ==
    (Returning /\ passes >= 1 /\ ValidConfig(hd_prdata) /\ OutDegreePositive) =>
        Abs(TotalScore - One) <= ScoreTol

\* the graph is a directed cycle over all its vertices
DirectedCycle ==
    /\ hornet.nV >= 2
    /\ hornet.edges = {<<v, (v + 1) % hornet.nV>> : v \in Vertices}

\* the run that is about to return has converged
Converged == passes >= 1 /\ h_out <= hd_prdata.threshold

\* C14: on a directed cycle of N vertices run() returns converged, with
\* curr_pr[v] = 1/N within tolerance for every vertex v.
C14_CycleConverges ==
    (Returning /\ DirectedCycle) =>
        /\ Converged
        /\ \A v \in Vertices :
              Abs(hd_prdata.curr_pr[v] - One \div hornet.nV) <= ScoreTol

----------------------------------------------------------------------------
\* The iteration counter

\* C15: every run() starts with the iteration counter at 0, a second run on
\* the same solver included; the counter goes up by one at the end of each
\* pass and is left alone by every other step of the run, so it never
\* decreases during a run; it is the number of passes the run has completed,
\* during the run and after it has returned.
C15_IterationCountsPasses ==
    /\ [][RunBegin => hd_prdata'.iteration = 0]_vars
    /\ [][PassEnd => hd_prdata'.iteration = hd_prdata.iteration + 1]_vars
    /\ [][(pc # "idle" /\ ~PassEnd) => hd_prdata'.iteration = hd_prdata.iteration]_vars
    /\ [](pc = "test" => hd_prdata.iteration = passes)
    /\ [](pc = "pass" => hd_prdata.iteration = passes - 1)
    /\ [](Returned => get_iteration_count = passes)

\* the second pass of a run on a solver that has run before is under way
C15_Witness ==
    /\ ran
    /\ pc = "pass"
    /\ passes = 2
    /\ hd_prdata.iteration = 1
    /\ last_run.scores # hd_prdata.curr_pr

----------------------------------------------------------------------------
\* The stages of a pass

DampStage ==
    CHOOSE k \in 1 .. Len(PassStages) : PassStages[k] = "DampAndDiffAndCopy"

\* the DampAndDiff unit of vertex v has executed in the current pass
DampDone(v) == <<DampStage, v>> \in done

\* C16: the DampAndDiff unit of a vertex v takes abs_diff[v] from the new
\* curr_pr[v] and the prev_pr[v] the pass began with, which stays in place until
\* that unit overwrites it; once the unit has executed prev_pr[v] = curr_pr[v],
\* and abs_diff[v] is not 0 if the score of v has changed in the pass.
C16_DiffBeforeCopy ==
    pc = "pass" =>
        \A v \in Vertices :
            IF DampDone(v)
            THEN /\ hd_prdata.abs_diff[v] = Abs(hd_prdata.curr_pr[v] - prev_start[v])
                 /\ hd_prdata.prev_pr[v] = hd_prdata.curr_pr[v]
                 /\ hd_prdata.curr_pr[v] # prev_start[v] => hd_prdata.abs_diff[v] # 0
            ELSE hd_prdata.prev_pr[v] = prev_start[v]

\* DampAndDiff is half way: it has executed on a vertex whose score changed and
\* has not yet executed on another vertex
C16_Witness ==
    /\ pc = "pass"
    /\ stage = DampStage
    /\ \E v, w \in Vertices :
          /\ DampDone(v)
          /\ hd_prdata.curr_pr[v] # prev_start[v]
          /\ hd_prdata.abs_diff[v] > 0
          /\ ~DampDone(w)

\* the Reset unit of vertex v has executed in the current pass
ResetDone(v) ==
    \E k \in DOMAIN PassStages : PassStages[k] = "ResetCurr" /\ <<k, v>> \in done

\* the scatter of the current pass has been launched / has ended
ScatterLaunched == pc = "pass" /\ stage >= ScatterStage

ScatterEnded ==
    \/ pc = "pass" /\ stage = ScatterStage /\ pending = {}
    \/ pc = "pass" /\ stage > ScatterStage
    \/ pc = "test" /\ passes >= 1

\* what vertex w hands to each neighbour, from the scores the pass began with
ContriOf(w) == IF Degree(w) = 0 THEN 0 ELSE prev_start[w] \div Degree(w)

\* the score of v after a pass, from the scores the pass began with, the graph
\* and the configuration
ExpectedCurr(v) ==
    hd_prdata.normalized_damp
    + SumOver([e \in hornet.edges |-> FMul(hd_prdata.damp, ContriOf(e[2]))],
              {e \in hornet.edges : e[1] = v})

\* C17: in every pass the Reset unit of every vertex has executed, and every
\* curr_pr[v] is the damping baseline, when the scatter is launched; the
\* curr_pr a pass produces is therefore a function of the prev_pr the pass began
\* with, of the graph and of the configuration, whatever an earlier pass or an
\* earlier run has left in curr_pr.
C17_PassStartsFromBaseline ==
    /\ ScatterLaunched =>
          \A v \in Vertices :
              ResetDone(v) /\ curr_start[v] = hd_prdata.normalized_damp
    /\ ScatterEnded =>
          \A v \in Vertices : hd_prdata.curr_pr[v] = ExpectedCurr(v)

\* the scatter of the second pass of a second run has ended, the pass having
\* begun with scores that were not uniform
C17_Witness ==
    /\ ran
    /\ passes = 2
    /\ pc = "pass"
    /\ stage > ScatterStage
    /\ \E v, w \in Vertices : prev_start[v] # prev_start[w]
    /\ \E v \in Vertices : hd_prdata.curr_pr[v] # hd_prdata.normalized_damp

----------------------------------------------------------------------------
\* The ranking report on small graphs

Min(a, b) == IF a <= b THEN a ELSE b

\* C18: whatever the number of vertices, below TopK included, every index
\* printRankings reads in the sorted ids and scores lies in [0, nV), and the
\* report has min(TopK, nV) lines.
C18_ReadsInRange ==
    reported.lines # <<>> =>
        /\ oob_reads = {}
        /\ Len(reported.lines) = Min(TopK, hornet.nV)

----------------------------------------------------------------------------
\* The owned buffers

\* live host buffers allocated for the copy of the scores: the one
\* host_page_rank refers to, and one more if an earlier one is out of reach
\* (a lower bound of their number)
HostCopiesLive ==
    (IF ptr["host_page_rank"] = "live" THEN 1 ELSE 0)
    + (IF "host_page_rank" \in lost THEN 1 ELSE 0)

\* C19: whatever the number of calls of get_page_rank_score_host, at most one
\* host buffer allocated for the copy of the scores is live at any time, and
\* none is once the solver has been destroyed.
C19_HostCopiesFreed ==
    /\ HostCopiesLive <= 1
    /\ life = "destroyed" => HostCopiesLive = 0

\* C20: each owned buffer is freed at most once and only if it was allocated,
\* whatever was called before the destruction, an explicit release() included,
\* and no operation uses a buffer that release() has freed (here for a solver
\* whose host_page_rank was the null pointer until it was first allocated).
C20_FreedOnceNoUseAfter ==
    ptr["host_page_rank"] # "wild" => faults = {}

====
